---- MODULE Spec2Model ----
(***************************************************************************)
(* Dependency-graph engine of OpenCodeIntel                                *)
(* (backend/services/dependency_analyzer.py): build_dependency_graph,      *)
(* _resolve_import_to_file, _calculate_graph_metrics and get_file_impact.  *)
(*                                                                         *)
(* Python str values are modelled as sequences of one-character strings,   *)
(* so that startswith / lstrip / count / replace and the pathlib           *)
(* operations are computed character by character as the code does.        *)
(***************************************************************************)
EXTENDS Integers, Sequences, FiniteSets, TLC

\* ------------------------------------------------------------------ str

\* str.startswith(p)
StartsWith(s, p) == Len(s) >= Len(p) /\ SubSeq(s, 1, Len(p)) = p

\* str.lstrip(chars): drops every leading character that is in chars
RECURSIVE LStrip(_, _)
LStrip(s, chars) ==
    IF s # <<>> /\ Head(s) \in chars THEN LStrip(Tail(s), chars) ELSE s

\* str.count(sub): number of non-overlapping occurrences, left to right
RECURSIVE Count(_, _)
Count(s, sub) ==
    IF Len(s) < Len(sub) THEN 0
    ELSE IF StartsWith(s, sub)
         THEN 1 + Count(SubSeq(s, Len(sub) + 1, Len(s)), sub)
         ELSE Count(Tail(s), sub)

\* str.replace(old, new, n): the first n occurrences, left to right
RECURSIVE Replace(_, _, _, _)
Replace(s, old, new, n) ==
    IF n = 0 \/ Len(s) < Len(old) THEN s
    ELSE IF StartsWith(s, old)
         THEN new \o Replace(SubSeq(s, Len(old) + 1, Len(s)), old, new, n - 1)
         ELSE <<Head(s)>> \o Replace(Tail(s), old, new, n)

\* `sub in s` for strings
RECURSIVE Contains(_, _)
Contains(s, sub) ==
    IF Len(s) < Len(sub) THEN FALSE
    ELSE StartsWith(s, sub) \/ Contains(Tail(s), sub)

\* str.split(sep) for a one-character separator
RECURSIVE Split(_, _)
Split(s, sep) ==
    IF \A i \in 1..Len(s) : s[i] # sep THEN <<s>>
    ELSE LET i == CHOOSE k \in 1..Len(s) :
                      s[k] = sep /\ \A j \in 1..(k - 1) : s[j] # sep
         IN  <<SubSeq(s, 1, i - 1)>> \o Split(SubSeq(s, i + 1, Len(s)), sep)

\* sep.join(parts)
RECURSIVE JoinWith(_, _)
JoinWith(parts, sep) ==
    IF parts = <<>> THEN <<>>
    ELSE IF Len(parts) = 1 THEN parts[1]
    ELSE parts[1] \o sep \o JoinWith(Tail(parts), sep)

\* str.rfind(c): 1-based index of the last c, 0 when there is none
RFind(s, c) ==
    IF \A i \in 1..Len(s) : s[i] # c THEN 0
    ELSE CHOOSE k \in 1..Len(s) : s[k] = c /\ \A j \in (k + 1)..Len(s) : s[j] # c

\* str.lower() on the characters the model uses
LowerChar(c) ==
    CASE c = "P" -> "p" [] c = "Y" -> "y" [] c = "T" -> "t" [] c = "S" -> "s"
      [] c = "J" -> "j" [] c = "X" -> "x" [] OTHER -> c

Lower(s) == [i \in 1..Len(s) |-> LowerChar(s[i])]

\* ------------------------------------------------------------- pathlib

\* A PurePosixPath: `anchor` is the number of leading slashes pathlib keeps
\* (0 relative, 1 absolute, 2 for exactly two leading slashes), `parts` the
\* components with empty and "." components dropped.
RECURSIVE DropDots(_)
DropDots(comps) ==
    IF comps = <<>> THEN <<>>
    ELSE IF Head(comps) = <<>> \/ Head(comps) = <<".">> THEN DropDots(Tail(comps))
    ELSE <<Head(comps)>> \o DropDots(Tail(comps))

LeadingSlashes(s) == Len(s) - Len(LStrip(s, {"/"}))

\* Path(s)
PathOf(s) ==
    [anchor |-> IF LeadingSlashes(s) = 2 THEN 2
                ELSE IF LeadingSlashes(s) >= 1 THEN 1 ELSE 0,
     parts  |-> DropDots(Split(s, "/"))]

\* str(path)
PathStr(p) ==
    IF p.anchor = 0 /\ p.parts = <<>> THEN <<".">>
    ELSE [i \in 1..p.anchor |-> "/"] \o JoinWith(p.parts, <<"/">>)

\* path.parent
Parent(p) ==
    IF p.parts = <<>> THEN p
    ELSE [p EXCEPT !.parts = SubSeq(p.parts, 1, Len(p.parts) - 1)]

\* path / s
JoinPath(p, s) ==
    LET q == PathOf(s)
    IN  IF q.anchor > 0 THEN q
        ELSE [anchor |-> p.anchor, parts |-> p.parts \o q.parts]

\* path.name
PathName(p) == IF p.parts = <<>> THEN <<>> ELSE p.parts[Len(p.parts)]

\* path.suffix: from the last dot of the name, unless that dot is the first
\* or the last character of the name
PathSuffix(p) ==
    LET name == PathName(p)
        i    == RFind(name, ".")
    IN  IF 1 < i /\ i < Len(name) THEN SubSeq(name, i, Len(name)) ELSE <<>>

\* path.stem
PathStem(p) ==
    LET name == PathName(p)
        i    == RFind(name, ".")
    IN  IF 1 < i /\ i < Len(name) THEN SubSeq(name, 1, i - 1) ELSE name

\* path.parts membership test used by the skip-directory filter
PathParts(p) == {p.parts[i] : i \in 1..Len(p.parts)}

\* ---------------------------------------------------- language registry

\* None, distinguishable from every str
None == <<"None">>

Truthy(v) == v # None /\ v # <<>>

\* lang_map of _detect_language
LangMap(ext) ==
    CASE ext = <<".", "p", "y">>      -> "python"
      [] ext = <<".", "j", "s">>      -> "javascript"
      [] ext = <<".", "j", "s", "x">> -> "javascript"
      [] ext = <<".", "t", "s">>      -> "typescript"
      [] ext = <<".", "t", "s", "x">> -> "typescript"
      [] OTHER -> "unknown"

\* _detect_language(file_path)
DetectLanguage(file_path) == LangMap(Lower(PathSuffix(PathOf(file_path))))

\* self.parsers
Parsers == {"python", "javascript", "typescript"}

\* ------------------------------------------------------- path resolver

\* extensions tried for a relative import, in order
RelExtensions ==
    << <<>>, <<".", "t", "s">>, <<".", "t", "s", "x">>, <<".", "j", "s">>,
       <<".", "j", "s", "x">>, <<".", "p", "y">> >>

\* extensions tried for an absolute import, in order
AbsExtensions == << <<".", "p", "y">>, <<".", "j", "s">>, <<".", "t", "s">> >>

\* Mutant of FirstIn: the first candidate is returned without the membership
\* test against the known paths
FirstInUnchecked(cands, internal_files) ==
    IF cands = <<>> THEN None ELSE Head(cands)

\* The first element of the candidate sequence that is a known path
RECURSIVE FirstIn(_, _)
FirstIn(cands, internal_files) ==
    IF cands = <<>> THEN None
    ELSE IF Head(cands) \in internal_files THEN Head(cands)
    ELSE FirstIn(Tail(cands), internal_files)

\* Mutant of PotentialBase: the import is joined to the repository root
\* instead of the importing file's directory
PotentialBaseFromRoot(import_path, source_file) ==
    JoinPath(PathOf(<<".">>), LStrip(import_path, {".", "/"}))

\* potential_base of the relative branch
PotentialBase(import_path, source_file) ==
    LET source_dir == Parent(PathOf(source_file))
        levels_up  == Count(import_path, <<".", ".", "/">>)
        UpDir[n \in 0..levels_up] ==
            IF n = 0 THEN source_dir ELSE Parent(UpDir[n - 1])
    IN  IF levels_up > 0
        THEN JoinPath(UpDir[levels_up],
                      Replace(import_path, <<".", ".", "/">>, <<>>, levels_up))
        ELSE JoinPath(source_dir, LStrip(import_path, {".", "/"}))

\* Mutant of RelativeCandidates: the index file of the directory is not tried
RECURSIVE RelativeCandidatesNoIndex(_, _)
RelativeCandidatesNoIndex(potential_base, exts) ==
    IF exts = <<>> THEN <<>>
    ELSE <<PathStr(potential_base) \o Head(exts)>>
         \o RelativeCandidatesNoIndex(potential_base, Tail(exts))

\* test_path and index_path of every extension, in the order the loop tries them
RECURSIVE RelativeCandidates(_, _)
RelativeCandidates(potential_base, exts) ==
    IF exts = <<>> THEN <<>>
    ELSE << PathStr(potential_base) \o Head(exts),
            PathStr(JoinPath(potential_base,
                             <<"i", "n", "d", "e", "x">> \o Head(exts))) >>
         \o RelativeCandidates(potential_base, Tail(exts))

\* test_path and init_path of every extension of the absolute branch
RECURSIVE AbsoluteCandidates(_, _)
AbsoluteCandidates(module_path, exts) ==
    IF exts = <<>> THEN <<>>
    ELSE << module_path \o Head(exts),
            module_path \o <<"/", "_", "_", "i", "n", "i", "t", "_", "_", ".", "p", "y">> >>
         \o AbsoluteCandidates(module_path, Tail(exts))

\* _resolve_import_to_file(import_path, source_file, internal_files, repo_path)
ResolveImportToFile(import_path, source_file, internal_files) ==
    IF /\ ~StartsWith(import_path, <<".">>)
       /\ ~StartsWith(import_path, <<"/">>)
       /\ ~Contains(import_path, <<"/">>)
    THEN None
    ELSE IF StartsWith(import_path, <<".">>)
    THEN FirstIn(RelativeCandidates(PotentialBase(import_path, source_file),
                                    RelExtensions),
                 internal_files)
    ELSE FirstIn(AbsoluteCandidates(Replace(import_path, <<".">>, <<"/">>,
                                            Len(import_path)),
                                    AbsExtensions),
                 internal_files)

\* ------------------------------------------------------ bounded inputs

\* Largest collection whose iteration order is enumerated in full
MaxPermute == 3

\* Largest number of files in a repository tree
MaxFiles == 2

\* Largest number of import strings in a repository, over all its files
MaxImports == 2

\* Largest number of files whose read or parse raises
MaxUnreadable == 1

\* File paths, relative to the repository root
F_a_b_ts      == <<"a", "/", "b", ".", "t", "s">>
F_a_c_ts      == <<"a", "/", "c", ".", "t", "s">>
F_main_py     == <<"m", "a", "i", "n", ".", "p", "y">>
F_utils_py    == <<"u", "t", "i", "l", "s", ".", "p", "y">>
F_vendored_js == <<"n", "o", "d", "e", "_", "m", "o", "d", "u", "l", "e", "s", "/", "x", ".", "j", "s">>
F_readme      == <<"R", "E", "A", "D", "M", "E", ".", "m", "d">>
F_missing     == <<"m", "i", "s", "s", "i", "n", "g", ".", "p", "y">>

Paths ==
    {F_a_b_ts, F_a_c_ts, F_main_py, F_utils_py, F_vendored_js, F_readme}

\* Raw import strings as the extractors yield them
I_dot_c   == <<".", "/", "c">>
I_dot_b   == <<".", "/", "b">>
I_react   == <<"r", "e", "a", "c", "t">>
I_utils   == <<"u", "t", "i", "l", "s">>
I_rel_utl == <<".", "u", "t", "i", "l", "s">>

\* _extract_js_imports yields the quoted string of the statement
JsImports == {I_dot_c, I_dot_b, I_react}

\* _extract_python_imports yields strings of word characters and dots
PyImports == {I_utils, I_rel_utl}

ImportsFor(file_path) ==
    IF DetectLanguage(file_path) = "python" THEN PyImports
    ELSE IF DetectLanguage(file_path) \in Parsers THEN JsImports
    ELSE {}

\* local_path of a repository: the repos directory joined with the name of
\* the clone's directory (RepoManager.repos_dir, add_repo, _sync_existing_repos)
Roots == {<<"r", "e", "p", "o", "s", "/", "r", "1">>, <<"r", "e", "p", "o", "s", "/", "b", "u", "i", "l", "d">>}

\* Largest number of dependents in the generated star, chain and ring graphs
MaxDependents == 12

\* Largest number of generated package imports of one file
MaxExternal == 49

F_test_utils == <<"t", "e", "s", "t", "_", "u", "t", "i", "l", "s", ".", "p", "y">>
F_app_js     == <<"a", "p", "p", ".", "j", "s">>
I_a_c        == <<".", "/", "a", "/", "c">>
I_a_c_ts     == <<"a", "/", "c", ".", "t", "s">>

DigitChar(d) ==
    CASE d = 0 -> "0" [] d = 1 -> "1" [] d = 2 -> "2" [] d = 3 -> "3"
      [] d = 4 -> "4" [] d = 5 -> "5" [] d = 6 -> "6" [] d = 7 -> "7"
      [] d = 8 -> "8" [] d = 9 -> "9"

\* str(k) for k >= 0
RECURSIVE Digits(_)
Digits(k) ==
    IF k < 10 THEN <<DigitChar(k)>>
    ELSE Digits(k \div 10) \o <<DigitChar(k % 10)>>

\* f0.py, f1.py, ...
GenFile(k) == <<"f">> \o Digits(k) \o <<".", "p", "y">>

\* pkg1, pkg2, ...: package names no repository file matches
GenImport(k) == <<"p", "k", "g">> \o Digits(k)

\* ------------------------------------------------------------ ordering

\* Every sequence that lists each element of S once
Perms(S) ==
    {q \in [1..Cardinality(S) -> S] :
        \A i, j \in 1..Cardinality(S) : i # j => q[i] # q[j]}

\* The elements of S in one fixed order
RECURSIVE SeqOf(_)
SeqOf(S) ==
    IF S = {} THEN <<>>
    ELSE LET x == CHOOSE y \in S : TRUE
         IN  <<x>> \o SeqOf(S \ {x})

Reverse(q) == [i \in 1..Len(q) |-> q[Len(q) + 1 - i]]

\* The orders in which the elements of S may be iterated: list(a set) and
\* Path.rglob promise no order. A set of more than MaxPermute elements is
\* iterated in one fixed order or in its reverse.
Orders(S) ==
    IF Cardinality(S) <= MaxPermute THEN Perms(S)
    ELSE {SeqOf(S), Reverse(SeqOf(S))}

Range(q) == {q[i] : i \in 1..Len(q)}

\* ------------------------------------------------------- the program

\* extensions and skip_dirs of build_dependency_graph
Extensions == {<<".", "p", "y">>, <<".", "j", "s">>, <<".", "j", "s", "x">>, <<".", "t", "s">>, <<".", "t", "s", "x">>}

SkipDirs ==
    {<<"n", "o", "d", "e", "_", "m", "o", "d", "u", "l", "e", "s">>, <<".", "g", "i", "t">>, <<"_", "_", "p", "y", "c", "a", "c", "h", "e", "_", "_">>, <<"v", "e", "n", "v">>, <<"e", "n", "v">>, <<"d", "i", "s", "t">>, <<"b", "u", "i", "l", "d">>}

\* Thresholds and list lengths
RiskHigh    == 10
RiskMedium  == 3
TopN        == 10
ExternalCap == 50

VARIABLES
    repo,               \* the repository on disk: root, tree, imports, unreadable
    pc,                 \* position of build_dependency_graph
    code_files,         \* discovered files, in discovery order
    idx,                \* index of the running for loop
    file_dependencies,  \* dict relative path -> import list, in insertion order
    all_imports,        \* set of every import string seen
    nodes,
    edges,
    resolved_count,
    failed_count,
    result,             \* the dict build_dependency_graph returned
    prev,               \* what the previous build of the same snapshot returned
    impact,             \* the dict get_file_impact returned
    call,               \* one call of _resolve_import_to_file: arguments, locals, return
    db,                 \* rows of the file_dependencies table for the repository
    loaded,             \* what load_from_cache returned
    bfs,                \* one run of _find_transitive_dependents: its locals
    graph_metrics,      \* what one call of _calculate_graph_metrics returned
    extraction,         \* one call of _extract_python_imports on a statement
    procs               \* concurrent requests: position and locals of each

vars ==
    <<repo, pc, code_files, idx, file_dependencies, all_imports, nodes, edges,
      resolved_count, failed_count, result, prev, impact, call, db, loaded, bfs,
      graph_metrics, extraction, procs>>

NoGraph  == [none |-> "graph"]
NoPrev   == [none |-> "prev"]
NoImpact == [none |-> "impact"]
NoCall   == [none |-> "call"]
NoLoad   == [none |-> "load"]
NoBfs    == [none |-> "bfs"]
NoMetrics    == [none |-> "metrics"]
NoExtraction == [none |-> "extraction"]
NoProcs      == [none |-> "procs"]

\* The file_dependencies and repository_insights tables without a row for
\* the repository
EmptyDb == [file_dependencies |-> {}, repository_insights |-> {}]

\* Nothing has been resolved, cached, loaded or searched
Idle ==
    /\ call = NoCall
    /\ db = EmptyDb
    /\ loaded = NoLoad
    /\ bfs = NoBfs
    /\ graph_metrics = NoMetrics
    /\ extraction = NoExtraction
    /\ procs = NoProcs

\* The files the rglob loop keeps: not a directory, no skip directory among
\* the parts of the path under the root, suffix among the extensions.
Discovered(r) ==
    {f \in r.tree :
        /\ PathParts(JoinPath(PathOf(r.root), f)) \cap SkipDirs = {}
        /\ PathSuffix(PathOf(f)) \in Extensions}

\* Mutant of AnalyzeFileDependencies: a file whose read raises keeps the
\* imports of its content
AnalyzeFileDependenciesKeepsImports(r, file_path) ==
    IF DetectLanguage(file_path) \notin Parsers THEN {<<>>}
    ELSE Orders(r.imports[file_path])

\* analyze_file_dependencies(file_path)["imports"]: the extracted set in some
\* list order, or [] when the language has no parser or reading/parsing raises
AnalyzeFileDependencies(r, file_path) ==
    IF DetectLanguage(file_path) \notin Parsers THEN {<<>>}
    ELSE IF file_path \in r.unreadable THEN {<<>>}
    ELSE Orders(r.imports[file_path])

\* Position of key k in an insertion-ordered dict given as a sequence of
\* records with field `key`, 0 when absent
KeyIndex(d, k) ==
    IF \A n \in 1..Len(d) : d[n].key # k THEN 0
    ELSE CHOOSE n \in 1..Len(d) : d[n].key = k

Keys(d) == {d[n].key : n \in 1..Len(d)}

\* Mutant of InternalFiles: the known paths lack the file processed last
InternalFilesBeforeLast(d) == {d[n].key : n \in 1..(Len(d) - 1)}

\* internal_files = set(file_dependencies.keys()), taken after the analysis
\* loop has ended
InternalFiles(d) == Keys(d)

\* d[k] = v on an insertion-ordered dict
DictSet(d, k, v) ==
    IF KeyIndex(d, k) = 0 THEN Append(d, [key |-> k, val |-> v])
    ELSE [d EXCEPT ![KeyIndex(d, k)].val = v]

\* d.get(k, default)
DictGet(d, k, default) ==
    IF KeyIndex(d, k) = 0 THEN default ELSE d[KeyIndex(d, k)].val

\* The inner loop of "Create edges" for one source file: one edge per import
\* that resolves, in import-list order
RECURSIVE EdgesOfFile(_, _, _)
EdgesOfFile(source_file, imports, internal_files) ==
    IF imports = <<>> THEN <<>>
    ELSE LET target_file ==
                 ResolveImportToFile(Head(imports), source_file, internal_files)
             rest == EdgesOfFile(source_file, Tail(imports), internal_files)
         IN  IF Truthy(target_file)
             THEN <<[source |-> source_file, target |-> target_file,
                     type |-> "import"]>> \o rest
             ELSE rest

\* One node per key of file_dependencies
NodeOf(entry) ==
    [id           |-> entry.key,
     label        |-> PathName(PathOf(entry.key)),
     type         |-> "file",
     language     |-> DetectLanguage(entry.key),
     import_count |-> Len(entry.val)]


\* ------------------------------------------------------------ metrics

\* in_degree / out_degree: a dict counting, edge by edge, the edges of each
\* target / source; keys are in order of first appearance in the edge list
RECURSIVE InDegree(_)
InDegree(es) ==
    IF es = <<>> THEN <<>>
    ELSE LET d == InDegree(SubSeq(es, 1, Len(es) - 1))
             k == es[Len(es)].target
         IN  DictSet(d, k, DictGet(d, k, 0) + 1)

RECURSIVE OutDegree(_)
OutDegree(es) ==
    IF es = <<>> THEN <<>>
    ELSE LET d == OutDegree(SubSeq(es, 1, Len(es) - 1))
             k == es[Len(es)].source
         IN  DictSet(d, k, DictGet(d, k, 0) + 1)

\* sorted(items, key=degree, reverse=True): descending and stable, items of
\* equal degree keep the order they have in the dict
InsertByDegree(sorted, e) ==
    LET n == Cardinality({k \in 1..Len(sorted) : sorted[k].val >= e.val})
    IN  SubSeq(sorted, 1, n) \o <<e>> \o SubSeq(sorted, n + 1, Len(sorted))

RECURSIVE SortByDegree(_)
SortByDegree(items) ==
    IF items = <<>> THEN <<>>
    ELSE InsertByDegree(SortByDegree(SubSeq(items, 1, Len(items) - 1)),
                        items[Len(items)])

\* q[:n]
Take(q, n) == SubSeq(q, 1, IF Len(q) < n THEN Len(q) ELSE n)

RECURSIVE SumVals(_)
SumVals(d) == IF d = <<>> THEN 0 ELSE Head(d).val + SumVals(Tail(d))

\* Mutant of CalculateGraphMetrics: the average is taken over every file that
\* occurs in an edge, targets included
CalculateGraphMetricsOverEndpoints(es) ==
    LET in_degree  == InDegree(es)
        out_degree == OutDegree(es)
        critical   == Take(SortByDegree(in_degree), TopN)
        complex    == Take(SortByDegree(out_degree), TopN)
    IN  [most_critical_files |->
             [k \in 1..Len(critical) |->
                 [file |-> critical[k].key, dependents |-> critical[k].val]],
         most_complex_files |->
             [k \in 1..Len(complex) |->
                 [file |-> complex[k].key, dependencies |-> complex[k].val]],
         avg_dependencies |->
             IF out_degree # <<>>
             THEN [num |-> SumVals(out_degree),
                   den |-> Cardinality(Keys(out_degree) \cup Keys(in_degree))]
             ELSE [num |-> 0, den |-> 1],
         total_edges |-> Len(es)]

\* _calculate_graph_metrics(dependencies, edges); avg_dependencies is the
\* quotient num / den, kept as the pair
CalculateGraphMetrics(es) ==
    LET in_degree  == InDegree(es)
        out_degree == OutDegree(es)
        critical   == Take(SortByDegree(in_degree), TopN)
        complex    == Take(SortByDegree(out_degree), TopN)
    IN  [most_critical_files |->
             [k \in 1..Len(critical) |->
                 [file |-> critical[k].key, dependents |-> critical[k].val]],
         most_complex_files |->
             [k \in 1..Len(complex) |->
                 [file |-> complex[k].key, dependencies |-> complex[k].val]],
         avg_dependencies |->
             IF out_degree # <<>>
             THEN [num |-> SumVals(out_degree), den |-> Len(out_degree)]
             ELSE [num |-> 0, den |-> 1],
         total_edges |-> Len(es)]

\* list(a set)[:n]: any n elements of the set, all of it when it has at most n
RECURSIVE Drop(_, _)
Drop(S, k) ==
    IF k <= 0 THEN {S}
    ELSE UNION {Drop(S \ {x}, k - 1) : x \in S}

\* Mutant of Truncations: the slice keeps one element fewer
TruncationsOneShort(S, n) ==
    IF Cardinality(S) <= n - 1 THEN {S} ELSE Drop(S, Cardinality(S) - (n - 1))

Truncations(S, n) ==
    IF Cardinality(S) <= n THEN {S} ELSE Drop(S, Cardinality(S) - n)

\* ------------------------------------------------------------- impact

\* dependents_map: target -> list of the sources of its edges, in edge order
RECURSIVE DependentsMap(_)
DependentsMap(es) ==
    IF es = <<>> THEN <<>>
    ELSE LET d == DependentsMap(SubSeq(es, 1, Len(es) - 1))
             e == es[Len(es)]
         IN  DictSet(d, e.target, Append(DictGet(d, e.target, <<>>), e.source))

\* dependencies_map: source -> list of the targets of its edges, in edge order
RECURSIVE DependenciesMap(_)
DependenciesMap(es) ==
    IF es = <<>> THEN <<>>
    ELSE LET d == DependenciesMap(SubSeq(es, 1, Len(es) - 1))
             e == es[Len(es)]
         IN  DictSet(d, e.source, Append(DictGet(d, e.source, <<>>), e.target))

\* q restricted to the elements outside S, order kept
RECURSIVE Without(_, _)
Without(q, S) ==
    IF q = <<>> THEN <<>>
    ELSE IF Head(q) \in S THEN Without(Tail(q), S)
    ELSE <<Head(q)>> \o Without(Tail(q), S)

\* The while loop of _find_transitive_dependents from a queue and a visited set
RECURSIVE BfsLoop(_, _, _)
BfsLoop(queue, visited, dependents_map) ==
    IF queue = <<>> THEN visited
    ELSE LET current == Head(queue)
         IN  IF current \in visited
             THEN BfsLoop(Tail(queue), visited, dependents_map)
             ELSE BfsLoop(Tail(queue)
                            \o Without(DictGet(dependents_map, current, <<>>),
                                       visited \cup {current}),
                          visited \cup {current}, dependents_map)

\* Mutant of FindTransitiveDependents: the start file is not discarded from
\* the visited set
FindTransitiveDependentsKeepsStart(file_path, dependents_map) ==
    BfsLoop(<<file_path>>, {}, dependents_map)

\* _find_transitive_dependents(file_path, dependents_map): list(visited) lists
\* each visited file once in no promised order; the model keeps the set
FindTransitiveDependents(file_path, dependents_map) ==
    BfsLoop(<<file_path>>, {}, dependents_map) \ {file_path}

\* Mutant of TestPatterns: the .spec pattern is missing
TestPatternsNoSpec(file_name) ==
    {<<"t", "e", "s", "t", "_">> \o file_name, file_name \o <<"_", "t", "e", "s", "t">>,
     file_name \o <<".", "t", "e", "s", "t">>}

\* _find_test_files(file_path, nodes)
TestPatterns(file_name) ==
    {<<"t", "e", "s", "t", "_">> \o file_name, file_name \o <<"_", "t", "e", "s", "t">>,
     file_name \o <<".", "t", "e", "s", "t">>, file_name \o <<".", "s", "p", "e", "c">>}

RECURSIVE FindTestFiles(_, _)
FindTestFiles(file_path, ns) ==
    IF ns = <<>> THEN <<>>
    ELSE LET node_name == PathStem(PathOf(Head(ns).id))
             rest      == FindTestFiles(file_path, Tail(ns))
         IN  IF \E pattern \in TestPatterns(PathStem(PathOf(file_path))) :
                    Contains(node_name, pattern)
             THEN <<Head(ns).id>> \o rest
             ELSE rest

\* Mutant of RiskLevel: the comparisons include the thresholds
RiskLevelInclusive(n) ==
    IF n >= RiskHigh THEN "high" ELSE IF n >= RiskMedium THEN "medium" ELSE "low"

\* risk_level of get_file_impact
RiskLevel(n) ==
    IF n > RiskHigh THEN "high" ELSE IF n > RiskMedium THEN "medium" ELSE "low"

\* get_file_impact(repo_path, file_path, graph_data): it has no raise
\* statement and reads only keys every graph has, so it always returns
FileImpact(file_path, graph_data) ==
    LET dependents_map      == DependentsMap(graph_data.edges)
        dependencies_map    == DependenciesMap(graph_data.edges)
        direct_dependents   == DictGet(dependents_map, file_path, <<>>)
        all_dependents      == FindTransitiveDependents(file_path, dependents_map)
        direct_dependencies == DictGet(dependencies_map, file_path, <<>>)
        n                   == Cardinality(all_dependents)
    IN  [outcome             |-> "returned",
         file                |-> file_path,
         direct_dependents   |-> direct_dependents,
         all_dependents      |-> all_dependents,
         dependent_count     |-> n,
         direct_dependencies |-> direct_dependencies,
         dependency_count    |-> Len(direct_dependencies),
         risk_level          |-> RiskLevel(n),
         test_files          |-> FindTestFiles(file_path, graph_data.nodes),
         impact_summary      |->
             IF n = 0 THEN [count |-> 0, text |-> "No files depend on this - safe to modify"]
             ELSE IF n = 1 THEN [count |-> 1, text |-> "1 file would be affected by changes"]
             ELSE [count |-> n, text |-> "files would be affected by changes"]]

\* -------------------------------------------------------- repositories

\* (file, import string) pairs a tree can hold
Slots(tree) == {fm \in tree \X (JsImports \cup PyImports) : fm[2] \in ImportsFor(fm[1])}

\* Subsets of S with at most n elements
AtMost(S, n) == {P \in SUBSET S : Cardinality(P) <= n}

\* The repositories at one root with one tree
ReposOf(root, tree) ==
    {[root       |-> root,
      tree       |-> tree,
      imports    |-> [f \in tree |-> {m \in ImportsFor(f) : <<f, m>> \in slots}],
      unreadable |-> bad] :
        slots \in AtMost(Slots(tree), MaxImports),
        bad \in AtMost(tree, MaxUnreadable)}

\* Repositories of at most MaxFiles files and MaxImports import strings, of
\* which at most MaxUnreadable files cannot be read or parsed
Repos ==
    UNION {ReposOf(root, tree) : root \in Roots, tree \in AtMost(Paths, MaxFiles)}

\* ----------------------------------------------------------- actions

\* State of a build that has not started
Fresh ==
    /\ pc = "start"
    /\ code_files = <<>>
    /\ idx = 1
    /\ file_dependencies = <<>>
    /\ all_imports = {}
    /\ nodes = <<>>
    /\ edges = <<>>
    /\ resolved_count = 0
    /\ failed_count = 0
    /\ result = NoGraph
    /\ impact = NoImpact

\* build_dependency_graph, "Discover code files": the rglob loop
Discover ==
    /\ pc = "start"
    /\ code_files' \in Orders(Discovered(repo))
    /\ idx' = 1
    /\ pc' = IF Discovered(repo) = {} THEN "nodes" ELSE "analyze"
    /\ UNCHANGED <<repo, file_dependencies, all_imports, nodes, edges,
                   resolved_count, failed_count, result, prev, impact,
                   call, db, loaded, bfs,
                   graph_metrics, extraction, procs>>

\* "Analyze each file": one iteration of the loop over code_files
AnalyzeFile ==
    /\ pc = "analyze"
    /\ \E imports \in AnalyzeFileDependencies(repo, code_files[idx]) :
          /\ file_dependencies' = DictSet(file_dependencies, code_files[idx], imports)
          /\ all_imports' = all_imports \cup Range(imports)
    /\ idx' = IF idx = Len(code_files) THEN 1 ELSE idx + 1
    /\ pc' = IF idx = Len(code_files) THEN "nodes" ELSE "analyze"
    /\ UNCHANGED <<repo, code_files, nodes, edges, resolved_count, failed_count,
                   result, prev, impact,
                   call, db, loaded, bfs,
                   graph_metrics, extraction, procs>>

\* "Create nodes"
CreateNodes ==
    /\ pc = "nodes"
    /\ nodes' = [k \in 1..Len(file_dependencies) |-> NodeOf(file_dependencies[k])]
    /\ idx' = 1
    /\ pc' = IF file_dependencies = <<>> THEN "metrics" ELSE "edges"
    /\ UNCHANGED <<repo, code_files, file_dependencies, all_imports, edges,
                   resolved_count, failed_count, result, prev, impact,
                   call, db, loaded, bfs,
                   graph_metrics, extraction, procs>>

\* "Create edges": one iteration of the outer loop over file_dependencies
CreateEdges ==
    /\ pc = "edges"
    /\ LET source_file == file_dependencies[idx].key
           imports     == file_dependencies[idx].val
           new         == EdgesOfFile(source_file, imports,
                                      InternalFiles(file_dependencies))
       IN  /\ edges' = edges \o new
           /\ resolved_count' = resolved_count + Len(new)
           /\ failed_count' = failed_count + (Len(imports) - Len(new))
    /\ idx' = IF idx = Len(file_dependencies) THEN 1 ELSE idx + 1
    /\ pc' = IF idx = Len(file_dependencies) THEN "metrics" ELSE "edges"
    /\ UNCHANGED <<repo, code_files, file_dependencies, all_imports, nodes,
                   result, prev, impact,
                   call, db, loaded, bfs,
                   graph_metrics, extraction, procs>>

\* "Calculate metrics" and the return statement
ReturnGraph ==
    /\ pc = "metrics"
    /\ \E external \in Truncations(all_imports \ Keys(file_dependencies), ExternalCap) :
          result' = [nodes                 |-> nodes,
                     edges                 |-> edges,
                     dependencies          |-> file_dependencies,
                     metrics               |-> CalculateGraphMetrics(edges),
                     total_files           |-> Len(nodes),
                     total_dependencies    |-> Len(edges),
                     external_dependencies |-> external]
    /\ pc' = "done"
    /\ UNCHANGED <<repo, code_files, idx, file_dependencies, all_imports, nodes,
                   edges, resolved_count, failed_count, prev, impact,
                   call, db, loaded, bfs,
                   graph_metrics, extraction, procs>>

NodeIds(g) == {g.nodes[k].id : k \in 1..Len(g.nodes)}

\* get_file_impact on the graph that was built, for a file of the graph or
\* for a path that is not in it
GetFileImpact ==
    /\ pc = "done"
    /\ impact = NoImpact
    /\ \E file_path \in NodeIds(result) \cup {F_missing} :
          impact' = FileImpact(file_path, result)
    /\ UNCHANGED <<repo, pc, code_files, idx, file_dependencies, all_imports,
                   nodes, edges, resolved_count, failed_count, result, prev,
                   call, db, loaded, bfs,
                   graph_metrics, extraction, procs>>

\* What two builds of one snapshot are compared on
Summary(g) ==
    [nodes    |-> NodeIds(g),
     edges    |-> {<<g.edges[k].source, g.edges[k].target>> : k \in 1..Len(g.edges)},
     critical |-> g.metrics.most_critical_files,
     complex  |-> g.metrics.most_complex_files]

\* build_dependency_graph is called again on the unchanged repository
Rebuild ==
    /\ pc = "done"
    /\ impact = NoImpact
    /\ prev = NoPrev
    /\ prev' = Summary(result)
    /\ pc' = "start"
    /\ code_files' = <<>>
    /\ idx' = 1
    /\ file_dependencies' = <<>>
    /\ all_imports' = {}
    /\ nodes' = <<>>
    /\ edges' = <<>>
    /\ resolved_count' = 0
    /\ failed_count' = 0
    /\ result' = NoGraph
    /\ impact' = NoImpact
    /\ UNCHANGED <<repo, call, db, loaded, bfs,
                   graph_metrics, extraction, procs>>

Init ==
    /\ repo \in Repos
    /\ prev = NoPrev
    /\ Fresh
    /\ Idle

\* One build, then impact queries on its graph
Next ==
    \/ Discover
    \/ AnalyzeFile
    \/ CreateNodes
    \/ CreateEdges
    \/ ReturnGraph
    \/ GetFileImpact

Spec == Init /\ [][Next]_vars

\* The same, with a second build of the unchanged repository
NextRebuild ==
    \/ Discover
    \/ AnalyzeFile
    \/ CreateNodes
    \/ CreateEdges
    \/ ReturnGraph
    \/ GetFileImpact
    \/ Rebuild

SpecRebuild == Init /\ [][NextRebuild]_vars

\* The build alone, without impact queries and rebuilds
NextBuild ==
    \/ Discover
    \/ AnalyzeFile
    \/ CreateNodes
    \/ CreateEdges
    \/ ReturnGraph

\* ---- the end-to-end example: main.py and test_utils.py import utils

ExampleRepo ==
    [root       |-> <<"/", "s", "r", "v", "/", "r">>,
     tree       |-> {F_main_py, F_utils_py, F_test_utils},
     imports    |-> [f \in {F_main_py, F_utils_py, F_test_utils} |->
                        IF f = F_utils_py THEN {} ELSE {I_utils}],
     unreadable |-> {}]

InitExample ==
    /\ repo = ExampleRepo
    /\ prev = NoPrev
    /\ Fresh
    /\ Idle

SpecExample == InitExample /\ [][NextRebuild]_vars

\* ---- a file with many imports of packages that are not in the repository

ExternalRepos ==
    {[root       |-> <<"/", "s", "r", "v", "/", "r">>,
      tree       |-> {F_app_js, F_a_c_ts},
      imports    |-> [f \in {F_app_js, F_a_c_ts} |->
                         IF f = F_app_js
                         THEN base \cup {GenImport(j) : j \in 1..k}
                         ELSE {}],
      unreadable |-> {}] :
        base \in SUBSET {I_react, I_a_c, I_a_c_ts}, k \in 0..MaxExternal}

InitExternal ==
    /\ repo \in ExternalRepos
    /\ prev = NoPrev
    /\ Fresh
    /\ Idle

SpecExternal == InitExternal /\ [][NextBuild]_vars

\* ---- impact queries on graphs handed to get_file_impact

\* graph_data as get_file_impact reads it: the ids of the nodes and the
\* source and target of the edges
GraphData(ids, pairs) ==
    [nodes |-> [k \in 1..Len(ids) |-> [id |-> ids[k]]],
     edges |-> [k \in 1..Len(pairs) |->
                   [source |-> pairs[k][1], target |-> pairs[k][2]]]]

SmallIds == <<F_a_b_ts, F_a_c_ts, F_main_py>>

\* Every edge set over three files, self-loops and cycles included, as an
\* edge list, as the reversed list and as a list that holds each edge twice
SmallGraphs ==
    UNION {{GraphData(SmallIds, SeqOf(E)),
            GraphData(SmallIds, Reverse(SeqOf(E))),
            GraphData(SmallIds, SeqOf(E) \o SeqOf(E))} :
                E \in SUBSET (Range(SmallIds) \X Range(SmallIds))}

GenIds(k) == [j \in 1..(k + 1) |-> GenFile(j - 1)]

\* f1..fk all import f0
Star(k) == GraphData(GenIds(k), [j \in 1..k |-> <<GenFile(j), GenFile(0)>>])

\* f1 imports f0, f2 imports f1, ...
Chain(k) == GraphData(GenIds(k), [j \in 1..k |-> <<GenFile(j), GenFile(j - 1)>>])

\* the chain closed by f0 importing fk
Ring(k) ==
    GraphData(GenIds(k),
              [j \in 1..(k + 1) |->
                  IF j <= k THEN <<GenFile(j), GenFile(j - 1)>>
                  ELSE <<GenFile(0), GenFile(k)>>])

ImpactGraphs ==
    SmallGraphs \cup UNION {{Star(k), Chain(k), Ring(k)} : k \in 0..MaxDependents}

NoRepo == [root |-> <<>>, tree |-> {}, imports |-> <<>>, unreadable |-> {}]

InitImpact ==
    /\ repo = NoRepo
    /\ prev = NoPrev
    /\ result \in ImpactGraphs
    /\ pc = "done"
    /\ code_files = <<>>
    /\ idx = 1
    /\ file_dependencies = <<>>
    /\ all_imports = {}
    /\ nodes = <<>>
    /\ edges = <<>>
    /\ resolved_count = 0
    /\ failed_count = 0
    /\ impact = NoImpact
    /\ Idle

NextImpact == GetFileImpact

SpecImpact == InitImpact /\ [][NextImpact]_vars

\* ---- single calls of _resolve_import_to_file

\* Largest number of known paths handed to one call
MaxKnown == 2

F_x_y_z_ts == <<"x", "/", "y", "/", "z", ".", "t", "s">>

I_utils_rel   == <<".", "/", "u", "t", "i", "l", "s">>
I_up_utils    == <<".", ".", "/", "u", "t", "i", "l", "s">>
I_up2_utils   == <<".", ".", "/", ".", ".", "/", "u", "t", "i", "l", "s">>
I_x_up_utils  == <<".", "/", "x", "/", ".", ".", "/", "u", "t", "i", "l", "s">>
I_dots_utils  == <<".", ".", "u", "t", "i", "l", "s">>
I_a_utils     == <<"a", "/", "u", "t", "i", "l", "s">>
I_a_dot_utils == <<"a", ".", "u", "t", "i", "l", "s">>

\* source_file of the calls: files of the directories a, x/y and the root
ResolveSources == {F_a_b_ts, F_x_y_z_ts, F_app_js}

\* import_path of the calls
ResolveImports ==
    {I_utils_rel, I_up_utils, I_up2_utils, I_x_up_utils, I_dots_utils,
     I_utils, I_a_utils, I_a_dot_utils}

\* Paths a repository can hold for a module named utils: the module as a
\* file of each source extension, and as a directory with an index file or a
\* package __init__.py, in the root and in the directories a and x
ModuleBases == {I_utils, I_a_utils, <<"x", "/", "u", "t", "i", "l", "s">>}

ModuleTails ==
    {ext : ext \in Extensions}
        \cup {<<"/", "i", "n", "d", "e", "x">> \o ext : ext \in Extensions}
        \cup {<<"/", "_", "_", "i", "n", "i", "t", "_", "_", ".", "p", "y">>}

ModulePaths == {b \o t : b \in ModuleBases, t \in ModuleTails}

\* The subsets of S with at most n elements, built by adding one element at
\* a time
RECURSIVE SubsetsUpTo(_, _)
SubsetsUpTo(S, n) ==
    IF n = 0 THEN {{}}
    ELSE LET R == SubsetsUpTo(S, n - 1)
         IN  R \cup {P \cup {x} : P \in R, x \in S}

\* The calls: every import and source with every set of at most MaxKnown
\* module paths as internal_files
ResolveCalls ==
    {[pc             |-> "called",
      import_path    |-> m,
      source_file    |-> f,
      internal_files |-> K,
      potential_base |-> None,
      ret            |-> None] :
        m \in ResolveImports, f \in ResolveSources, K \in SubsetsUpTo(ModulePaths, MaxKnown)}

InitResolve ==
    /\ repo = NoRepo
    /\ prev = NoPrev
    /\ Fresh
    /\ call \in ResolveCalls
    /\ db = EmptyDb
    /\ loaded = NoLoad
    /\ bfs = NoBfs
    /\ graph_metrics = NoMetrics
    /\ extraction = NoExtraction
    /\ procs = NoProcs

\* _resolve_import_to_file runs to its return; potential_base is kept as the
\* string the candidates are built from, None outside the relative branch
ResolveImport ==
    /\ call # NoCall
    /\ call.pc = "called"
    /\ call' = [call EXCEPT
                   !.pc = "returned",
                   !.potential_base =
                       IF StartsWith(call.import_path, <<".">>)
                       THEN PathStr(PotentialBase(call.import_path, call.source_file))
                       ELSE None,
                   !.ret = ResolveImportToFile(call.import_path, call.source_file,
                                               call.internal_files)]
    /\ UNCHANGED <<repo, pc, code_files, idx, file_dependencies, all_imports,
                   nodes, edges, resolved_count, failed_count, result, prev,
                   impact, db, loaded, bfs,
                   graph_metrics, extraction, procs>>

NextResolve == ResolveImport

SpecResolve == InitResolve /\ [][NextResolve]_vars

\* ---- the cache: save_to_cache after a build, then load_from_cache

\* depended_by of save_to_cache: the keys of internal_deps_map whose list
\* holds file_path, in key order
RECURSIVE DependedBy(_, _)
DependedBy(file_path, internal_deps_map) ==
    IF internal_deps_map = <<>> THEN <<>>
    ELSE LET rest == DependedBy(file_path, Tail(internal_deps_map))
         IN  IF file_path \in Range(Head(internal_deps_map).val)
             THEN <<Head(internal_deps_map).key>> \o rest
             ELSE rest

\* Mutant of FileDepsRow: depends_on holds the raw import strings
FileDepsRowRawImports(file_path, imports, internal_deps_map) ==
    [file_path       |-> file_path,
     depends_on      |-> imports,
     depended_by     |-> DependedBy(file_path, internal_deps_map),
     import_count    |-> Len(imports),
     dependent_count |-> Len(DependedBy(file_path, internal_deps_map))]

\* The row save_to_cache appends to file_deps for one file
FileDepsRow(file_path, imports, internal_deps_map) ==
    [file_path       |-> file_path,
     depends_on      |-> DictGet(internal_deps_map, file_path, <<>>),
     depended_by     |-> DependedBy(file_path, internal_deps_map),
     import_count    |-> Len(imports),
     dependent_count |-> Len(DependedBy(file_path, internal_deps_map))]

RECURSIVE SumLens(_)
SumLens(d) == IF d = <<>> THEN 0 ELSE Len(Head(d).val) + SumLens(Tail(d))

RECURSIVE MaxLens(_)
MaxLens(d) ==
    IF d = <<>> THEN 0
    ELSE LET m == MaxLens(Tail(d))
         IN  IF Len(Head(d).val) > m THEN Len(Head(d).val) ELSE m

\* insights of save_to_cache, as upsert_repository_insights stores them
Insights(graph_data) ==
    [total_files               |-> Len(graph_data.dependencies),
     total_dependencies        |-> SumLens(graph_data.dependencies),
     avg_dependencies_per_file |-> graph_data.metrics.avg_dependencies,
     max_dependencies          |-> MaxLens(graph_data.dependencies),
     critical_files            |->
         [k \in 1..Len(Take(graph_data.metrics.most_critical_files, TopN)) |->
             graph_data.metrics.most_critical_files[k].file],
     architecture_patterns     |->
         [most_complex |-> graph_data.metrics.most_complex_files]]

\* save_to_cache(repo_id, graph_data) on the graph that was built: the rows of
\* the repository are deleted, one row per key of dependencies is written
\* (none when there is no key), and the insights row is updated or inserted
SaveToCache ==
    /\ pc = "done"
    /\ LET dependencies      == result.dependencies
           internal_deps_map == DependenciesMap(result.edges)
           file_deps         ==
               [k \in 1..Len(dependencies) |->
                   FileDepsRow(dependencies[k].key, dependencies[k].val,
                               internal_deps_map)]
       IN  db' = [file_dependencies   |-> Range(file_deps),
                  repository_insights |-> {Insights(result)}]
    /\ pc' = "saved"
    /\ UNCHANGED <<repo, code_files, idx, file_dependencies, all_imports, nodes,
                   edges, resolved_count, failed_count, result, prev, impact,
                   call, loaded, bfs,
                   graph_metrics, extraction, procs>>

\* load_from_cache returned None
LoadedNone == [none |-> "None"]

\* dependencies of load_from_cache: file_path -> depends_on, in row order
RECURSIVE CachedDependencies(_)
CachedDependencies(file_deps) ==
    IF file_deps = <<>> THEN <<>>
    ELSE DictSet(CachedDependencies(SubSeq(file_deps, 1, Len(file_deps) - 1)),
                 file_deps[Len(file_deps)].file_path,
                 file_deps[Len(file_deps)].depends_on)

\* The inner loop of "Build edges for graph" for one file
RECURSIVE CachedEdgesOfFile(_, _, _)
CachedEdgesOfFile(file_path, imports, known) ==
    IF imports = <<>> THEN <<>>
    ELSE LET rest == CachedEdgesOfFile(file_path, Tail(imports), known)
         IN  IF Head(imports) \in known
             THEN <<[source |-> file_path, target |-> Head(imports)]>> \o rest
             ELSE rest

\* "Build edges for graph": the files from position k on
RECURSIVE CachedEdges(_, _)
CachedEdges(dependencies, k) ==
    IF k > Len(dependencies) THEN <<>>
    ELSE CachedEdgesOfFile(dependencies[k].key, dependencies[k].val,
                           Keys(dependencies))
         \o CachedEdges(dependencies, k + 1)

\* The dict load_from_cache returns for rows file_deps and the insights rows
LoadedGraph(file_deps, insights) ==
    LET dependencies == CachedDependencies(file_deps)
        edges_       == CachedEdges(dependencies, 1)
    IN  [dependencies |-> dependencies,
         edges        |-> edges_,
         metrics      |->
             [avg_dependencies |->
                  IF insights = {} THEN [num |-> 0, den |-> 1]
                  ELSE (CHOOSE row \in insights : TRUE).avg_dependencies_per_file,
              total_edges |-> Len(edges_)],
         nodes        |->
             [k \in 1..Len(dependencies) |->
                 [id |-> dependencies[k].key, imports |-> Len(dependencies[k].val)]]]

\* load_from_cache(repo_id) after the save; the select returns the rows in
\* no promised order
LoadFromCache ==
    /\ pc = "saved"
    /\ loaded = NoLoad
    /\ \E file_deps \in Orders(db.file_dependencies) :
          loaded' = IF file_deps = <<>> THEN LoadedNone
                    ELSE LoadedGraph(file_deps, db.repository_insights)
    /\ UNCHANGED <<repo, pc, code_files, idx, file_dependencies, all_imports,
                   nodes, edges, resolved_count, failed_count, result, prev,
                   impact, call, db, bfs,
                   graph_metrics, extraction, procs>>

\* Rows an earlier build of another snapshot of the repository left behind
StaleDb ==
    [file_dependencies |->
         {[file_path       |-> F_missing,
           depends_on      |-> <<F_a_b_ts>>,
           depended_by     |-> <<>>,
           import_count    |-> 1,
           dependent_count |-> 0],
          [file_path       |-> F_a_b_ts,
           depends_on      |-> <<>>,
           depended_by     |-> <<F_missing>>,
           import_count    |-> 0,
           dependent_count |-> 1]},
     repository_insights |->
         {[total_files               |-> 2,
           total_dependencies        |-> 1,
           avg_dependencies_per_file |-> [num |-> 1, den |-> 1],
           max_dependencies          |-> 1,
           critical_files            |-> <<F_a_b_ts>>,
           architecture_patterns     |->
               [most_complex |-> <<[file |-> F_missing, dependencies |-> 1]>>]]}]

\* The repositories of one clone whose files can all be read
ReadableRepos ==
    {r \in UNION {ReposOf(<<"r", "e", "p", "o", "s", "/", "r", "1">>, tree) :
                     tree \in AtMost(Paths, MaxFiles)} :
        r.unreadable = {}}

InitCache ==
    /\ repo \in ReadableRepos
    /\ prev = NoPrev
    /\ Fresh
    /\ call = NoCall
    /\ db \in {EmptyDb, StaleDb}
    /\ loaded = NoLoad
    /\ bfs = NoBfs
    /\ graph_metrics = NoMetrics
    /\ extraction = NoExtraction
    /\ procs = NoProcs

\* ---- the build alone, on the repositories whose files can all be read

InitBuild ==
    /\ repo \in ReadableRepos
    /\ prev = NoPrev
    /\ Fresh
    /\ Idle

SpecBuild == InitBuild /\ [][NextBuild]_vars

NextCache ==
    \/ Discover
    \/ AnalyzeFile
    \/ CreateNodes
    \/ CreateEdges
    \/ ReturnGraph
    \/ SaveToCache
    \/ LoadFromCache

SpecCache == InitCache /\ [][NextCache]_vars

\* ---- _find_transitive_dependents, one loop iteration at a time

\* Mutant of AlreadyVisited: a file popped from the queue is never skipped
AlreadyVisitedNever(current, visited) == FALSE

\* `if current in visited: continue`
AlreadyVisited(current, visited) == current \in visited

\* The runs: every graph of ImpactGraphs, started at each of its files and at
\* a path that is not in it; `added` lists the calls of visited.add
BfsRuns ==
    UNION {{[pc             |-> "loop",
             file_path      |-> f,
             dependents_map |-> DependentsMap(g.edges),
             queue          |-> <<f>>,
             visited        |-> {},
             added          |-> <<>>,
             ret            |-> {}] : f \in NodeIds(g) \cup {F_missing}} :
                g \in ImpactGraphs}

InitBfs ==
    /\ repo = NoRepo
    /\ prev = NoPrev
    /\ Fresh
    /\ call = NoCall
    /\ db = EmptyDb
    /\ loaded = NoLoad
    /\ bfs \in BfsRuns
    /\ graph_metrics = NoMetrics
    /\ extraction = NoExtraction
    /\ procs = NoProcs

\* One iteration of the while loop on a file that was visited before
BfsSkip ==
    /\ bfs # NoBfs
    /\ bfs.pc = "loop"
    /\ bfs.queue # <<>>
    /\ AlreadyVisited(Head(bfs.queue), bfs.visited)
    /\ bfs' = [bfs EXCEPT !.queue = Tail(bfs.queue)]
    /\ UNCHANGED <<repo, pc, code_files, idx, file_dependencies, all_imports,
                   nodes, edges, resolved_count, failed_count, result, prev,
                   impact, call, db, loaded,
                   graph_metrics, extraction, procs>>

\* One iteration of the while loop on a file that is new
BfsVisit ==
    /\ bfs # NoBfs
    /\ bfs.pc = "loop"
    /\ bfs.queue # <<>>
    /\ ~AlreadyVisited(Head(bfs.queue), bfs.visited)
    /\ LET current == Head(bfs.queue)
       IN  bfs' = [bfs EXCEPT
                     !.visited = bfs.visited \cup {current},
                     !.added   = Append(bfs.added, current),
                     !.queue   = Tail(bfs.queue)
                                   \o Without(DictGet(bfs.dependents_map, current, <<>>),
                                              bfs.visited \cup {current})]
    /\ UNCHANGED <<repo, pc, code_files, idx, file_dependencies, all_imports,
                   nodes, edges, resolved_count, failed_count, result, prev,
                   impact, call, db, loaded,
                   graph_metrics, extraction, procs>>

\* The queue is empty: visited.discard(file_path); return list(visited)
BfsReturn ==
    /\ bfs # NoBfs
    /\ bfs.pc = "loop"
    /\ bfs.queue = <<>>
    /\ bfs' = [bfs EXCEPT !.pc = "returned",
                           !.visited = bfs.visited \ {bfs.file_path},
                           !.ret = bfs.visited \ {bfs.file_path}]
    /\ UNCHANGED <<repo, pc, code_files, idx, file_dependencies, all_imports,
                   nodes, edges, resolved_count, failed_count, result, prev,
                   impact, call, db, loaded,
                   graph_metrics, extraction, procs>>

NextBfs ==
    \/ BfsSkip
    \/ BfsVisit
    \/ BfsReturn

\* The loop is the body of one call: an enabled iteration is taken
SpecBfs == InitBfs /\ [][NextBfs]_vars /\ WF_vars(NextBfs)

\* ---- single calls of _calculate_graph_metrics

\* _calculate_graph_metrics on the edge list of a graph of ImpactGraphs
CalculateMetrics ==
    /\ pc = "done"
    /\ graph_metrics = NoMetrics
    /\ graph_metrics' = CalculateGraphMetrics(result.edges)
    /\ UNCHANGED <<repo, pc, code_files, idx, file_dependencies, all_imports,
                   nodes, edges, resolved_count, failed_count, result, prev,
                   impact, call, db, loaded, bfs, extraction, procs>>

NextMetrics == CalculateMetrics

SpecMetrics == InitImpact /\ [][NextMetrics]_vars

\* ---- impact queries on graphs that hold test files

\* Largest number of nodes of these graphs
MaxTestNodes == 3

F_utils_test_py  == <<"u", "t", "i", "l", "s", "_", "t", "e", "s", "t", ".", "p", "y">>
F_utils_test_ts  == <<"a", "/", "u", "t", "i", "l", "s", ".", "t", "e", "s", "t", ".", "t", "s">>
F_utils_spec_ts  == <<"a", "/", "u", "t", "i", "l", "s", ".", "s", "p", "e", "c", ".", "t", "s">>
F_test_utils_sub == <<"t", "e", "s", "t", "s", "/", "t", "e", "s", "t", "_", "u", "t", "i", "l", "s", "_", "e", "x", "t", "r", "a", ".", "p", "y">>
F_test_bar_ts    == <<"a", "/", "t", "e", "s", "t", "_", "b", "a", "r", ".", "t", "s">>

\* Source files, their test files under each naming pattern, a file whose
\* stem only contains a pattern, and files that are no test of anything
TestPaths ==
    {F_utils_py, F_test_utils, F_utils_test_py, F_utils_test_ts, F_utils_spec_ts,
     F_test_utils_sub, F_test_bar_ts, F_a_b_ts, F_main_py}

\* Every node list of at most MaxTestNodes of these files, in one order and
\* in its reverse, without edges
TestGraphs ==
    UNION {{GraphData(SeqOf(N), <<>>), GraphData(Reverse(SeqOf(N)), <<>>)} :
              N \in SubsetsUpTo(TestPaths, MaxTestNodes)}

InitTests ==
    /\ repo = NoRepo
    /\ prev = NoPrev
    /\ result \in TestGraphs
    /\ pc = "done"
    /\ code_files = <<>>
    /\ idx = 1
    /\ file_dependencies = <<>>
    /\ all_imports = {}
    /\ nodes = <<>>
    /\ edges = <<>>
    /\ resolved_count = 0
    /\ failed_count = 0
    /\ impact = NoImpact
    /\ Idle

SpecTests == InitTests /\ [][NextImpact]_vars

\* ------------------------------------------------------------ claims

EdgePairs(g) == {<<g.edges[k].source, g.edges[k].target>> : k \in 1..Len(g.edges)}

\* The import list the graph records for file f
ImportList(g, f) == DictGet(g.dependencies, f, <<>>)

\* The targets of the edges that leave f
Outgoing(g, f) == {e[2] : e \in {x \in EdgePairs(g) : x[1] = f}}

\* The files from which a file of S is reachable along edges of E
RECURSIVE Closure(_, _)
Closure(S, E) ==
    LET T == S \cup {e[1] : e \in {x \in E : x[2] \in S}}
    IN  IF T = S THEN S ELSE Closure(T, E)

\* The files from which file is reachable by one or more edges of E
Ancestors(file, E) == Closure({e[1] : e \in {x \in E : x[2] = file}}, E)

\* The import strings of f's list that resolve to no file of the graph
UnresolvedOf(g, f) ==
    {m \in Range(ImportList(g, f)) :
        ~Truthy(ResolveImportToFile(m, f, NodeIds(g)))}

\* Every import string some import list of the graph holds
ImportStrings(g) == UNION {Range(ImportList(g, f)) : f \in NodeIds(g)}

\* The edges of f are those of its imports that resolve, one per import;
\* unresolved is the set of f's import strings that do not resolve
NoEdgeForUnresolved(g, f, unresolved) ==
    /\ Outgoing(g, f) =
           {ResolveImportToFile(m, f, NodeIds(g)) :
               m \in Range(ImportList(g, f)) \ unresolved}
    /\ Cardinality({k \in 1..Len(g.edges) : g.edges[k].source = f}) =
           Len(ImportList(g, f)) - Cardinality(unresolved)

\* The sum of the sizes of the sets U[x], x in S
RECURSIVE SumCard(_, _)
SumCard(S, U) ==
    IF S = {} THEN 0
    ELSE LET x == CHOOSE y \in S : TRUE
         IN  Cardinality(U[x]) + SumCard(S \ {x}, U)

\* C1: in the graph build_dependency_graph returns, the source and the target
\* of every edge are ids of entries of the nodes list.
C1_EdgeEndpointsAreNodes ==
    result # NoGraph =>
        \A k \in 1..Len(result.edges) :
            /\ result.edges[k].source \in NodeIds(result)
            /\ result.edges[k].target \in NodeIds(result)

C1_Witness ==
    /\ result # NoGraph
    /\ Len(result.edges) >= 2
    /\ \E e \in EdgePairs(result) : e[1] # e[2]

\* C2: in the graph build_dependency_graph returns, no edge has its source
\* equal to its target, also when a file imports itself by a relative path.
C2_NoSelfLoops ==
    result # NoGraph =>
        \A k \in 1..Len(result.edges) :
            result.edges[k].source # result.edges[k].target

\* C3: get_file_impact for a file_path that is the id of no node fails with a
\* not-found error instead of returning a report.
C3_AbsentFileNotFound ==
    (impact # NoImpact /\ impact.file \notin NodeIds(result)) =>
        impact.outcome = "not_found"

\* C4: all_dependents is exactly the set of files other than the target from
\* which the target is reachable by one or more edges; it never holds the
\* target, also when the target lies on a cycle, and dependent_count is its size.
C4_TransitiveDependents ==
    impact # NoImpact =>
        /\ impact.all_dependents =
               Ancestors(impact.file, EdgePairs(result)) \ {impact.file}
        /\ impact.file \notin impact.all_dependents
        /\ impact.dependent_count = Cardinality(impact.all_dependents)

C4_Witness ==
    /\ impact # NoImpact
    /\ impact.file \in Ancestors(impact.file, EdgePairs(result))
    /\ \E f \in impact.all_dependents : f \notin Range(impact.direct_dependents)

\* C5: with n the number of transitive dependents, risk_level is high iff
\* n > 10, medium iff 4 <= n <= 10, low iff n <= 3, and dependent_count is n.
C5_RiskThresholds ==
    impact # NoImpact =>
        LET n == Cardinality(Ancestors(impact.file, EdgePairs(result)) \ {impact.file})
        IN  /\ impact.dependent_count = n
            /\ (impact.risk_level = "high") <=> (n > 10)
            /\ (impact.risk_level = "medium") <=> (4 <= n /\ n <= 10)
            /\ (impact.risk_level = "low") <=> (n <= 3)

C5_Witness ==
    /\ impact # NoImpact
    /\ impact.dependent_count = 11
    /\ impact.risk_level = "high"

\* C6: for main.py (from utils import helper), utils.py and test_utils.py (from
\* utils import helper) the graph has 3 nodes and exactly the edges
\* (main.py, utils.py) and (test_utils.py, utils.py), and the impact of
\* utils.py has direct dependents {main.py, test_utils.py}, risk low and
\* test_files {test_utils.py}.
C6_Example ==
    result # NoGraph =>
        /\ Len(result.nodes) = 3
        /\ Len(result.edges) = 2
        /\ EdgePairs(result) =
               {<<F_main_py, F_utils_py>>, <<F_test_utils, F_utils_py>>}
        /\ (impact # NoImpact /\ impact.file = F_utils_py) =>
               /\ Range(impact.direct_dependents) = {F_main_py, F_test_utils}
               /\ impact.risk_level = "low"
               /\ Range(impact.test_files) = {F_test_utils}

\* C7: two builds of one snapshot return the same node set, the same edge set
\* and the same most_critical_files and most_complex_files lists, whatever the
\* discovery order and the order of each import list.
C7_Deterministic ==
    (result # NoGraph /\ prev # NoPrev) => Summary(result) = prev

\* C8: when reading or parsing some discovered files fails, the build still
\* returns a graph in which every discovered file is a node, each failing file
\* has an empty import list and no outgoing edge, and every other file has the
\* import list and the outgoing edges it has when the failing files hold no
\* imports.
C8_PartialFailure ==
    (result # NoGraph /\ repo.unreadable \cap Discovered(repo) # {}) =>
        /\ NodeIds(result) = Discovered(repo)
        /\ Len(result.nodes) = Cardinality(Discovered(repo))
        /\ \A f \in Discovered(repo) \cap repo.unreadable :
              /\ ImportList(result, f) = <<>>
              /\ Outgoing(result, f) = {}
        /\ \A f \in Discovered(repo) \ repo.unreadable :
              /\ Range(ImportList(result, f)) = repo.imports[f]
              /\ Len(ImportList(result, f)) = Cardinality(repo.imports[f])
              /\ Outgoing(result, f) =
                     {ResolveImportToFile(m, f, Discovered(repo)) :
                         m \in repo.imports[f]} \ {None}

C8_Witness ==
    /\ result # NoGraph
    /\ \E f \in Discovered(repo) \cap repo.unreadable : repo.imports[f] # {}
    /\ \E f \in Discovered(repo) \ repo.unreadable : Outgoing(result, f) # {}

\* C9 as stated: an import that resolves to no file of the repository produces
\* no edge, the build returns, and the import is in external_dependencies.
C9_ExternalAlwaysReported ==
    result # NoGraph =>
        \A f \in NodeIds(result) :
            LET unresolved == UnresolvedOf(result, f)
            IN  /\ NoEdgeForUnresolved(result, f, unresolved)
                /\ unresolved \subseteq result.external_dependencies

\* C9 as amended: an import that resolves to no file of the repository produces
\* no edge and is counted in failed_count, the build returns, and the import
\* is in external_dependencies provided it is not itself the path of a
\* discovered file and at most ExternalCap import strings of the build are not
\* paths of discovered files.
C9_ExternalReported ==
    result # NoGraph =>
        LET ids        == NodeIds(result)
            unresolved == [f \in ids |-> UnresolvedOf(result, f)]
            capped     == Cardinality(ImportStrings(result) \ ids) > ExternalCap
        IN  /\ \A f \in ids :
                  /\ NoEdgeForUnresolved(result, f, unresolved[f])
                  /\ ~capped =>
                         (unresolved[f] \ ids) \subseteq result.external_dependencies
            /\ failed_count = SumCard(ids, unresolved)

C9_Witness ==
    /\ result # NoGraph
    /\ I_react \in UnresolvedOf(result, F_app_js)
    /\ I_react \in result.external_dependencies
    /\ Outgoing(result, F_app_js) = {F_a_c_ts}
    /\ Cardinality(ImportStrings(result) \ NodeIds(result)) = ExternalCap

\* C10: in a built graph, a file of directory D whose import list holds ./c,
\* where D/c.ts is a discovered file, has an edge to D/c.ts.
C10_RelativeSibling ==
    result # NoGraph =>
        \A f \in NodeIds(result) :
            LET sibling == PathStr(JoinPath(Parent(PathOf(f)), <<"c", ".", "t", "s">>))
            IN  (I_dot_c \in Range(ImportList(result, f)) /\ sibling \in NodeIds(result))
                    => <<f, sibling>> \in EdgePairs(result)

C10_Witness ==
    /\ result # NoGraph
    /\ I_dot_c \in Range(ImportList(result, F_a_b_ts))
    /\ <<F_a_b_ts, F_a_c_ts>> \in EdgePairs(result)

\* The directory of file f as the prefix of the paths of its files: empty
\* for a file of the repository root
DirPrefix(f) ==
    LET d == Parent(PathOf(f))
    IN  IF d.parts = <<>> THEN <<>> ELSE PathStr(d) \o <<"/">>

\* A call of the resolver has returned
Returned == call # NoCall /\ call.pc = "returned"

SourceFilesOutsideSkipDirs(r) ==
    {f \in r.tree :
        /\ PathSuffix(PathOf(f)) \in Extensions
        /\ PathParts(Parent(PathOf(f))) \cap SkipDirs = {}}

\* C12: the node set of the returned graph is exactly the set of files under
\* the repository root whose extension is .py, .js, .jsx, .ts or .tsx and that
\* lie in no skipped directory; each such file is a node once and no other
\* file is a node.
C12_NodeSet ==
    result # NoGraph =>
        /\ NodeIds(result) = SourceFilesOutsideSkipDirs(repo)
        /\ Len(result.nodes) = Cardinality(SourceFilesOutsideSkipDirs(repo))

\* ord(c) order of the characters of paths: position in the ASCII table
Ascii ==
    <<".", "/", "0", "1", "2", "3", "4", "5", "6", "7", "8", "9",
      "A", "B", "C", "D", "E", "F", "G", "H", "I", "J", "K", "L", "M",
      "N", "O", "P", "Q", "R", "S", "T", "U", "V", "W", "X", "Y", "Z", "_",
      "a", "b", "c", "d", "e", "f", "g", "h", "i", "j", "k", "l", "m",
      "n", "o", "p", "q", "r", "s", "t", "u", "v", "w", "x", "y", "z">>

CharCode(c) == CHOOSE i \in 1..Len(Ascii) : Ascii[i] = c

\* a < b for str
RECURSIVE StrLess(_, _)
StrLess(a, b) ==
    IF b = <<>> THEN FALSE
    ELSE IF a = <<>> THEN TRUE
    ELSE IF Head(a) = Head(b) THEN StrLess(Tail(a), Tail(b))
    ELSE CharCode(Head(a)) < CharCode(Head(b))

\* C13: the nodes list of the returned graph is in ascending order of file
\* path, whatever order the files were discovered in.
C13_NodesSorted ==
    result # NoGraph =>
        \A k \in 1..(Len(result.nodes) - 1) :
            StrLess(result.nodes[k].id, result.nodes[k + 1].id)

\* load_from_cache returned a graph
LoadedAGraph == loaded # NoLoad /\ loaded # LoadedNone

\* C14: the dependencies map of the graph load_from_cache returns after
\* save_to_cache(G) equals the dependencies map of G: per file, the raw import
\* strings build_dependency_graph recorded.
C14_RawImportsRoundTrip ==
    LoadedAGraph =>
        /\ Keys(loaded.dependencies) = Keys(result.dependencies)
        /\ \A f \in Keys(result.dependencies) :
              Range(DictGet(loaded.dependencies, f, <<>>)) =
                  Range(DictGet(result.dependencies, f, <<>>))

\* C15: for a built graph G with at least one file, load_from_cache after
\* save_to_cache(G) returns a graph whose node ids are exactly G's node ids
\* and whose (source, target) edges are exactly G's edges.
C15_CacheRoundTrip ==
    (loaded # NoLoad /\ Len(result.nodes) >= 1) =>
        /\ loaded # LoadedNone
        /\ NodeIds(loaded) = NodeIds(result)
        /\ Len(loaded.nodes) = Len(result.nodes)
        /\ EdgePairs(loaded) = EdgePairs(result)

C15_Witness ==
    /\ LoadedAGraph
    /\ Len(loaded.nodes) = 2
    /\ EdgePairs(loaded) = {<<F_a_b_ts, F_a_c_ts>>}
    /\ ImportList(result, F_a_b_ts) # <<>>
    /\ F_missing \notin NodeIds(loaded)

\* No file occurs twice in the list of calls of visited.add
AddedOnce ==
    \A i, j \in 1..Len(bfs.added) : i # j => bfs.added[i] # bfs.added[j]

\* C16: _find_transitive_dependents terminates for every dependents map,
\* cycles and self-loops included, and adds each file to its visited set at
\* most once; what it returns is what the search computes as a whole.
C16_TerminatesVisitingOnce ==
    /\ <>(bfs.pc = "returned")
    /\ [](AddedOnce /\ Len(bfs.added) = Cardinality(Range(bfs.added)))
    /\ [](bfs.pc = "returned" =>
             bfs.ret = FindTransitiveDependents(bfs.file_path, bfs.dependents_map))

C16_Witness ==
    /\ bfs # NoBfs
    /\ bfs.pc = "returned"
    /\ bfs.file_path \in Range(DictGet(bfs.dependents_map, bfs.file_path, <<>>))
    /\ \E g \in bfs.ret :
          /\ bfs.file_path \in Range(DictGet(bfs.dependents_map, g, <<>>))
          /\ g \in Range(DictGet(bfs.dependents_map, g, <<>>))
    /\ Cardinality(bfs.ret) = 2

\* The import strings analyze_file_dependencies extracts from file f of
\* repository r
Extracted(r, f) ==
    IF DetectLanguage(f) \in Parsers /\ f \notin r.unreadable
    THEN r.imports[f] ELSE {}

\* The edges of repository r when every import is resolved against the
\* complete set of discovered files
EdgesAgainstAllFiles(r) ==
    {e \in UNION {{<<f, ResolveImportToFile(m, f, Discovered(r))>> :
                      m \in Extracted(r, f)} : f \in Discovered(r)} :
        Truthy(e[2])}

\* C17: no import is resolved before the imports of every discovered file
\* have been extracted and every discovered file is a known path; the edge set
\* returned is the same for every order in which the files are processed.
C17_ResolveAfterExtraction ==
    /\ (pc = "edges" \/ edges # <<>> \/ resolved_count + failed_count > 0) =>
           /\ Keys(file_dependencies) = Discovered(repo)
           /\ \A f \in Discovered(repo) :
                 Range(DictGet(file_dependencies, f, <<>>)) = Extracted(repo, f)
    /\ result # NoGraph => EdgePairs(result) = EdgesAgainstAllFiles(repo)

C17_Witness ==
    /\ result # NoGraph
    /\ Len(code_files) = 2
    /\ <<code_files[1], code_files[2]>> \in EdgePairs(result)
    /\ resolved_count + failed_count = 2

\* A call of the resolver on an import that begins with a dot has returned
ReturnedRelative == Returned /\ StartsWith(call.import_path, <<".">>)

\* The extensions of the relative branch without the empty one
SourceExtensions == Tail(RelExtensions)

\* The candidates in the order C18 states: the joined path, the joined path
\* with each extension appended, the index file of each extension
CandidatesFilesFirst(base) ==
    <<base>>
        \o [k \in 1..Len(SourceExtensions) |-> base \o SourceExtensions[k]]
        \o [k \in 1..Len(SourceExtensions) |->
               base \o <<"/", "i", "n", "d", "e", "x">> \o SourceExtensions[k]]

\* C18: for a relative import the resolver returns the first known path among
\* the joined path, the joined path with each extension appended, and then the
\* index file of each extension; a known file <base><ext> wins over a known
\* index file <base>/index<ext'> for every pair of extensions.
C18_FilesBeforeIndexFiles ==
    ReturnedRelative =>
        call.ret = FirstIn(CandidatesFilesFirst(call.potential_base),
                           call.internal_files)

\* The number of ../ segments the string begins with
RECURSIVE LeadingUps(_)
LeadingUps(s) ==
    IF StartsWith(s, <<".", ".", "/">>)
    THEN 1 + LeadingUps(SubSeq(s, 4, Len(s)))
    ELSE 0

\* The directory n levels above directory d
RECURSIVE Up(_, _)
Up(d, n) == IF n = 0 THEN d ELSE Up(Parent(d), n - 1)

\* C19: for a relative import the base is the directory of the importing file
\* moved up once per leading ../ segment, joined with the rest of the import
\* string; a ../ later in the string and leading dots without a / change
\* nothing in the number of levels.
C19_LeadingParentSegments ==
    ReturnedRelative =>
        LET n    == LeadingUps(call.import_path)
            rest == IF n > 0
                    THEN SubSeq(call.import_path, 3 * n + 1, Len(call.import_path))
                    ELSE LStrip(call.import_path, {".", "/"})
        IN  call.potential_base =
                PathStr(JoinPath(Up(Parent(PathOf(call.source_file)), n), rest))

\* C20: for an import that does not begin with a dot the resolver replaces the
\* module dots by separators and returns the first known path of the candidate
\* list of the relative branch, taken from the repository root.
C20_AbsoluteTriesSameCandidates ==
    (Returned /\ ~StartsWith(call.import_path, <<".">>)) =>
        call.ret =
            FirstIn(RelativeCandidates(
                        PathOf(Replace(call.import_path, <<".">>, <<"/">>,
                                       Len(call.import_path))),
                        RelExtensions),
                    call.internal_files)

\* Entry x comes before entry y when its degree is larger, or equal with the
\* smaller path
RanksBefore(x, y) ==
    \/ x.val > y.val
    \/ x.val = y.val /\ StrLess(x.key, y.key)

\* list is the first TopN entries of the degree dict in that order
IsTopByDegreeThenPath(list, degree) ==
    /\ Len(list) = (IF Len(degree) < TopN THEN Len(degree) ELSE TopN)
    /\ \A k \in 1..Len(list) : list[k] \in Range(degree)
    /\ \A k \in 1..(Len(list) - 1) : RanksBefore(list[k], list[k + 1])
    /\ \A x \in Range(degree) \ Range(list) :
          \A k \in 1..Len(list) : RanksBefore(list[k], x)

\* C21: most_critical_files and most_complex_files are in descending order of
\* degree, files of equal degree in ascending path order, and hold the first
\* 10 files of that order, whatever the order of the edge list.
C21_TopByDegreeThenPath ==
    graph_metrics # NoMetrics =>
        /\ IsTopByDegreeThenPath(
               [k \in 1..Len(graph_metrics.most_critical_files) |->
                   [key |-> graph_metrics.most_critical_files[k].file,
                    val |-> graph_metrics.most_critical_files[k].dependents]],
               InDegree(result.edges))
        /\ IsTopByDegreeThenPath(
               [k \in 1..Len(graph_metrics.most_complex_files) |->
                   [key |-> graph_metrics.most_complex_files[k].file,
                    val |-> graph_metrics.most_complex_files[k].dependencies]],
               OutDegree(result.edges))

\* The files that are the source of an edge of the graph
Sources(g) == {e[1] : e \in EdgePairs(g)}

\* C22: avg_dependencies is the number of edges divided by the number of
\* distinct files that are the source of an edge, and 0 when there is no edge;
\* files without an outgoing edge do not enter it.
C22_AvgOverSources ==
    graph_metrics # NoMetrics =>
        LET avg == graph_metrics.avg_dependencies
        IN  /\ avg.den > 0
            /\ IF result.edges = <<>> THEN avg.num = 0
               ELSE avg.num * Cardinality(Sources(result)) =
                        Len(result.edges) * avg.den

C22_Witness ==
    /\ graph_metrics # NoMetrics
    /\ graph_metrics.avg_dependencies = [num |-> 3, den |-> 2]
    /\ NodeIds(result) \ Sources(result) # {}
    /\ Cardinality(EdgePairs(result)) = 3

\* p occurs in s as a substring
IsSubstring(p, s) ==
    \E i \in 1..(Len(s) - Len(p) + 1) : SubSeq(s, i, i + Len(p) - 1) = p

\* The stem of node id n contains test_S, S_test, S.test or S.spec, for S the
\* stem of file f
IsTestOf(n, f) ==
    LET S    == PathStem(PathOf(f))
        stem == PathStem(PathOf(n))
    IN  \/ IsSubstring(<<"t", "e", "s", "t", "_">> \o S, stem)
        \/ IsSubstring(S \o <<"_", "t", "e", "s", "t">>, stem)
        \/ IsSubstring(S \o <<".", "t", "e", "s", "t">>, stem)
        \/ IsSubstring(S \o <<".", "s", "p", "e", "c">>, stem)

\* C23: test_files is exactly the list of the graph's nodes whose filename
\* stem contains test_S, S_test, S.test or S.spec, S being the stem of the
\* target; no other node is listed and no such node is left out.
C23_TestFiles ==
    impact # NoImpact =>
        LET ids == [k \in 1..Len(result.nodes) |-> result.nodes[k].id]
            Matches(n) == IsTestOf(n, impact.file)
        IN  impact.test_files = SelectSeq(ids, Matches)

C23_Witness ==
    /\ impact # NoImpact
    /\ impact.file = F_utils_py
    /\ NodeIds(result) = {F_utils_py, F_utils_spec_ts, F_test_utils_sub}
    /\ Range(impact.test_files) = {F_utils_spec_ts, F_test_utils_sub}

\* C24: every string of external_dependencies is an import that some file
\* containing it could not resolve to a file of the repository; a string that
\* resolved in every file containing it is not listed.
C24_ExternalOnlyUnresolved ==
    result # NoGraph =>
        \A m \in result.external_dependencies :
            \E f \in NodeIds(result) : m \in UnresolvedOf(result, f)

\* ------------------------------------------ _extract_python_imports

\* the characters matched by \s and by \w in the statements considered
Whitespace == {" ", "\t", "\n"}
WordChars ==
    {"a", "b", "c", "d", "e", "f", "g", "h", "i", "j", "k", "l", "m", "n",
     "o", "p", "q", "r", "s", "t", "u", "v", "w", "x", "y", "z", "_",
     "0", "1", "2", "3", "4", "5", "6", "7", "8", "9"}

\* length of the longest prefix of s made of characters of class
RECURSIVE SpanLen(_, _)
SpanLen(s, class) ==
    IF s # <<>> /\ Head(s) \in class THEN 1 + SpanLen(Tail(s), class) ELSE 0

\* str.strip(): drops leading and trailing whitespace
RECURSIVE RStripWs(_)
RStripWs(s) ==
    IF s # <<>> /\ s[Len(s)] \in Whitespace
    THEN RStripWs(SubSeq(s, 1, Len(s) - 1)) ELSE s

Strip(s) == RStripWs(LStrip(s, Whitespace))

\* str.split(sep)[0] for a separator of any length
RECURSIVE SplitFirst(_, _)
SplitFirst(s, sep) ==
    IF Len(s) < Len(sep) THEN s
    ELSE IF StartsWith(s, sep) THEN <<>>
    ELSE <<Head(s)>> \o SplitFirst(Tail(s), sep)

\* re.match(r'from\s+([\w.]+)\s+import', text): group 1, or None.
\* The classes \s and [\w.] are disjoint, so the greedy match is the only one.
FromMatch(text) ==
    LET kw   == <<"f", "r", "o", "m">>
        r1   == SubSeq(text, Len(kw) + 1, Len(text))
        ws1  == SpanLen(r1, Whitespace)
        r2   == SubSeq(r1, ws1 + 1, Len(r1))
        name == SpanLen(r2, WordChars \cup {"."})
        r3   == SubSeq(r2, name + 1, Len(r2))
        ws2  == SpanLen(r3, Whitespace)
        r4   == SubSeq(r3, ws2 + 1, Len(r3))
    IN  IF /\ StartsWith(text, kw)
           /\ ws1 >= 1 /\ name >= 1 /\ ws2 >= 1
           /\ StartsWith(r4, <<"i", "m", "p", "o", "r", "t">>)
        THEN SubSeq(r2, 1, name)
        ELSE None

\* re.findall(r'import\s+([\w.,\s]+)', text): the groups, left to right.
\* \s+ takes the whole run of whitespace; when no character of the class
\* follows it gives one whitespace back to the group.
RECURSIVE FindAllImport(_)
FindAllImport(text) ==
    LET kw    == <<"i", "m", "p", "o", "r", "t">>
        class == WordChars \cup {".", ","} \cup Whitespace
        r1    == SubSeq(text, Len(kw) + 1, Len(text))
        ws    == SpanLen(r1, Whitespace)
        r2    == SubSeq(r1, ws + 1, Len(r1))
        run   == SpanLen(r2, class)
    IN  IF Len(text) < Len(kw) THEN <<>>
        ELSE IF ~StartsWith(text, kw) \/ ws = 0 THEN FindAllImport(Tail(text))
        ELSE IF run >= 1
             THEN <<SubSeq(r2, 1, run)>>
                      \o FindAllImport(SubSeq(r2, run + 1, Len(r2)))
        ELSE IF ws >= 2 THEN <<<<r1[ws]>>>> \o FindAllImport(r2)
        ELSE FindAllImport(Tail(text))

\* the names one group of the findall contributes (lines 56-59)
ModulesOf(module_list) ==
    LET parts == Split(module_list, ",")
        names == {SplitFirst(Strip(parts[i]),
                             <<" ", "a", "s", " ">>) : i \in 1..Len(parts)}
    IN  {module \in names : module # <<>>}

\* _extract_python_imports(tree_node, source_code): the statement's own
\* imports and those of its children
RECURSIVE ExtractPythonImports(_)
ExtractPythonImports(tree_node) ==
    LET import_text == tree_node.text
        own ==
            IF tree_node.type \in {"import_statement", "import_from_statement"}
            THEN IF StartsWith(import_text, <<"f", "r", "o", "m">>)
                 THEN IF FromMatch(import_text) # None
                      THEN {FromMatch(import_text)} ELSE {}
                 ELSE IF StartsWith(import_text,
                                    <<"i", "m", "p", "o", "r", "t">>)
                 THEN UNION {ModulesOf(FindAllImport(import_text)[i]) :
                                 i \in 1..Len(FindAllImport(import_text))}
                 ELSE {}
            ELSE {}
    IN  own \cup UNION {ExtractPythonImports(tree_node.children[i]) :
                            i \in 1..Len(tree_node.children)}

\* ---- Python import statements as tree-sitter hands them to the extractor

MaxModules == 2

ModuleNames == {<<"a">>, <<"b", ".", "c">>, <<"o", "s">>}

\* the white space a statement may carry between a module and `as`
AsGaps == {<<" ">>, <<" ", " ">>, <<"\t">>}

\* `m` or `m as x`, as an item of an import statement
ImportItems ==
    {[module |-> m, text |-> m, type |-> "dotted_name"] : m \in ModuleNames}
    \cup {[module |-> m, text |-> m \o g \o <<"a", "s", " ", "x">>,
           type |-> "aliased_import"] : m \in ModuleNames, g \in AsGaps}

ItemSeparators == {<<",">>, <<",", " ">>}

Leaf(type, text) == [type |-> type, text |-> text, children |-> <<>>]

\* `import i1, ..., ik` with its item nodes as children
ImportStatement(items, sep) ==
    [type |-> "import_statement",
     text |-> <<"i", "m", "p", "o", "r", "t", " ">>
                  \o JoinWith([i \in 1..Len(items) |-> items[i].text], sep),
     children |-> [i \in 1..Len(items) |-> Leaf(items[i].type, items[i].text)]]

\* `from m import x`
FromStatement(m, gap) ==
    [type |-> "import_from_statement",
     text |-> <<"f", "r", "o", "m", " ">> \o m \o gap
                  \o <<"i", "m", "p", "o", "r", "t", " ", "x">>,
     children |-> <<Leaf("dotted_name", m), Leaf("dotted_name", <<"x">>)>>]

RECURSIVE SeqsUpTo(_, _)
SeqsUpTo(S, n) ==
    IF n = 0 THEN {<<>>}
    ELSE SeqsUpTo(S, n - 1)
         \cup {Append(q, x) : q \in SeqsUpTo(S, n - 1), x \in S}

\* a statement together with the module names it imports
Statements ==
    {[node  |-> ImportStatement(items, sep),
      names |-> {items[i].module : i \in 1..Len(items)}] :
         items \in SeqsUpTo(ImportItems, MaxModules) \ {<<>>},
         sep \in ItemSeparators}
    \cup {[node |-> FromStatement(m, gap), names |-> {m}] :
             m \in ModuleNames \cup {<<".", "m">>},
             gap \in {<<" ">>, <<" ", " ">>}}

InitExtract ==
    /\ repo = NoRepo
    /\ prev = NoPrev
    /\ result = NoGraph
    /\ pc = "done"
    /\ code_files = <<>>
    /\ idx = 1
    /\ file_dependencies = <<>>
    /\ all_imports = {}
    /\ nodes = <<>>
    /\ edges = <<>>
    /\ resolved_count = 0
    /\ failed_count = 0
    /\ impact = NoImpact
    /\ call = NoCall
    /\ db = EmptyDb
    /\ loaded = NoLoad
    /\ bfs = NoBfs
    /\ graph_metrics = NoMetrics
    /\ procs = NoProcs
    /\ \E st \in Statements :
           extraction = [pc |-> "start", node |-> st.node,
                         names |-> st.names, ret |-> {}]

\* one call of _extract_python_imports on the statement node
ExtractImports ==
    /\ extraction # NoExtraction
    /\ extraction.pc = "start"
    /\ extraction' = [extraction EXCEPT
                          !.pc = "done",
                          !.ret = ExtractPythonImports(extraction.node)]
    /\ UNCHANGED <<repo, pc, code_files, idx, file_dependencies, all_imports,
                   nodes, edges, resolved_count, failed_count, result, prev,
                   impact, call, db, loaded, bfs, graph_metrics, procs>>

NextExtract == ExtractImports

SpecExtract == InitExtract /\ [][NextExtract]_vars

\* C25: the extractor yields exactly the module names of the statement, one
\* per named module and none for an alias; for `from m import ...` exactly m.
C25_ExactlyModuleNames ==
    (extraction # NoExtraction /\ extraction.pc = "done") =>
        extraction.ret = extraction.names

\* C26: every file listed in direct_dependents is also in all_dependents, so
\* dependent_count is at least the number of distinct direct dependents.
C26_DirectWithinAll ==
    impact # NoImpact =>
        /\ Range(impact.direct_dependents) \subseteq impact.all_dependents
        /\ impact.dependent_count >= Cardinality(Range(impact.direct_dependents))

\* ---- repositories whose files name one target by several import strings

I_dot_c_ts == <<".", "/", "c", ".", "t", "s">>

\* specifiers with and without the extension, as _extract_js_imports yields
\* them from `import './c'` and `import './c.ts'`
AliasImports == {I_dot_c, I_dot_c_ts, I_a_c, I_dot_b}

AliasRepos ==
    {[root       |-> <<"r", "e", "p", "o", "s", "/", "r", "1">>,
      tree       |-> tree,
      imports    |-> [f \in tree |-> {m \in AliasImports : <<f, m>> \in slots}],
      unreadable |-> {}] :
        tree \in SubsetsUpTo({F_a_b_ts, F_a_c_ts, F_app_js}, MaxFiles),
        slots \in SubsetsUpTo({F_a_b_ts, F_a_c_ts, F_app_js} \X AliasImports,
                              MaxImports)}

InitAlias ==
    /\ repo \in AliasRepos
    /\ prev = NoPrev
    /\ Fresh
    /\ Idle

SpecAlias == InitAlias /\ [][Next]_vars

\* C27: the edge list holds at most one edge per ordered pair (source,
\* target), so the in-degree reported in most_critical_files is the number of
\* distinct files that import the file and direct_dependents lists no file
\* twice.
C27_OneEdgePerPair ==
    /\ result # NoGraph =>
          /\ \A i, j \in 1..Len(result.edges) :
                 (/\ result.edges[i].source = result.edges[j].source
                  /\ result.edges[i].target = result.edges[j].target) => i = j
          /\ \A k \in 1..Len(result.metrics.most_critical_files) :
                 result.metrics.most_critical_files[k].dependents =
                     Cardinality({p[1] : p \in
                         {q \in EdgePairs(result) :
                              q[2] = result.metrics.most_critical_files[k].file}})
    /\ impact # NoImpact =>
          \A i, j \in 1..Len(impact.direct_dependents) :
              impact.direct_dependents[i] = impact.direct_dependents[j] => i = j

\* C29: whether a file becomes a node depends only on its path relative to
\* the repository root: the same tree under any other root location gives the
\* same set of node ids.
C29_NodesIndependentOfRoot ==
    result # NoGraph =>
        \A root \in Roots :
            NodeIds(result) = Discovered([repo EXCEPT !.root = root])

\* Number of directories between the repository root and the file
DirDepth(file_path) == Len(Parent(PathOf(file_path)).parts)

\* C30: a relative import with more leading ../ segments than the importing
\* file has directories above it is resolved to no file.
C30_AboveRootUnresolved ==
    (ReturnedRelative /\ LeadingUps(call.import_path) > DirDepth(call.source_file))
        => call.ret = None

\* ------------- concurrent requests for the dependency graph of one repository

\* The requests served at the same time
Requests == {"r1", "r2", "r3"}

\* The graph build_dependency_graph returns for a snapshot with the given
\* import lists and edges
SnapshotGraph(dependencies, es, external) ==
    [nodes                 |->
         [k \in 1..Len(dependencies) |->
             [id           |-> dependencies[k].key,
              label        |-> PathName(PathOf(dependencies[k].key)),
              type         |-> "file",
              language     |-> DetectLanguage(dependencies[k].key),
              import_count |-> Len(dependencies[k].val)]],
     edges                 |-> es,
     dependencies          |-> dependencies,
     metrics               |-> CalculateGraphMetrics(es),
     total_files           |-> Len(dependencies),
     total_dependencies    |-> Len(es),
     external_dependencies |-> external]

\* The graphs of three snapshots of the working tree: a/b.ts importing ./c
\* next to a/c.ts, a/b.ts alone, a/c.ts alone
SnapshotGraphs ==
    {SnapshotGraph(<<[key |-> F_a_b_ts, val |-> <<I_dot_c>>],
                     [key |-> F_a_c_ts, val |-> <<>>]>>,
                   <<[source |-> F_a_b_ts, target |-> F_a_c_ts,
                      type |-> "import"]>>,
                   {I_dot_c}),
     SnapshotGraph(<<[key |-> F_a_b_ts, val |-> <<I_dot_c>>]>>, <<>>, {I_dot_c}),
     SnapshotGraph(<<[key |-> F_a_c_ts, val |-> <<>>]>>, <<>>, {})}

\* A request that has not called load_from_cache yet
NewRequest ==
    [pc |-> "load", graph |-> NoGraph, file_deps |-> <<>>, ret |-> NoLoad]

InitRequests ==
    /\ repo = NoRepo
    /\ prev = NoPrev
    /\ result = NoGraph
    /\ pc = "done"
    /\ code_files = <<>>
    /\ idx = 1
    /\ file_dependencies = <<>>
    /\ all_imports = {}
    /\ nodes = <<>>
    /\ edges = <<>>
    /\ resolved_count = 0
    /\ failed_count = 0
    /\ impact = NoImpact
    /\ call = NoCall
    /\ db = EmptyDb
    /\ loaded = NoLoad
    /\ bfs = NoBfs
    /\ graph_metrics = NoMetrics
    /\ extraction = NoExtraction
    /\ procs = [r \in Requests |-> NewRequest]

RequestFrame ==
    UNCHANGED <<repo, pc, code_files, idx, file_dependencies, all_imports,
                nodes, edges, resolved_count, failed_count, result, prev,
                impact, call, loaded, bfs, graph_metrics, extraction>>

\* load_from_cache, db.get_file_dependencies: the select returns the rows in
\* no promised order; without rows load_from_cache returns None and the
\* route builds
LoadRows(r) ==
    /\ procs[r].pc = "load"
    /\ \E file_deps \in Orders(db.file_dependencies) :
          procs' = [procs EXCEPT
                        ![r].file_deps = file_deps,
                        ![r].ret = IF file_deps = <<>> THEN LoadedNone ELSE NoLoad,
                        ![r].pc = IF file_deps = <<>> THEN "build"
                                  ELSE "insights"]
    /\ UNCHANGED db
    /\ RequestFrame

\* load_from_cache, db.get_repository_insights and the return of the graph
LoadInsights(r) ==
    /\ procs[r].pc = "insights"
    /\ \E insights \in IF db.repository_insights = {} THEN {{}}
                       ELSE {{row} : row \in db.repository_insights} :
          procs' = [procs EXCEPT
                        ![r].ret = LoadedGraph(procs[r].file_deps, insights),
                        ![r].pc = "done"]
    /\ UNCHANGED db
    /\ RequestFrame

\* build_dependency_graph on the working tree as it is when the request
\* reaches it
BuildFresh(r) ==
    /\ procs[r].pc = "build"
    /\ \E g \in SnapshotGraphs :
          procs' = [procs EXCEPT ![r].graph = g, ![r].pc = "clear"]
    /\ UNCHANGED db
    /\ RequestFrame

\* save_to_cache, db.clear_file_dependencies
ClearFileDependencies(r) ==
    /\ procs[r].pc = "clear"
    /\ db' = [db EXCEPT !.file_dependencies = {}]
    /\ procs' = [procs EXCEPT ![r].pc = "upsert"]
    /\ RequestFrame

\* save_to_cache, db.upsert_file_dependencies: a row with the file_path of a
\* new row is replaced, the other rows stay
UpsertFileDependencies(r) ==
    /\ procs[r].pc = "upsert"
    /\ LET dependencies      == procs[r].graph.dependencies
           internal_deps_map == DependenciesMap(procs[r].graph.edges)
           file_deps         ==
               {FileDepsRow(dependencies[k].key, dependencies[k].val,
                            internal_deps_map) : k \in 1..Len(dependencies)}
       IN  db' = [db EXCEPT !.file_dependencies =
                      {row \in @ : \A new \in file_deps :
                                       new.file_path # row.file_path}
                      \cup file_deps]
    /\ procs' = [procs EXCEPT ![r].pc = "update_insights"]
    /\ RequestFrame

\* upsert_repository_insights, the update of the repository's rows
UpdateInsights(r) ==
    /\ procs[r].pc = "update_insights"
    /\ db' = [db EXCEPT !.repository_insights =
                  IF @ = {} THEN {} ELSE {Insights(procs[r].graph)}]
    /\ procs' = [procs EXCEPT ![r].pc =
                     IF db.repository_insights = {} THEN "insert_insights"
                     ELSE "done"]
    /\ RequestFrame

\* upsert_repository_insights, the insert when the update touched no row
InsertInsights(r) ==
    /\ procs[r].pc = "insert_insights"
    /\ db' = [db EXCEPT !.repository_insights = @ \cup {Insights(procs[r].graph)}]
    /\ procs' = [procs EXCEPT ![r].pc = "done"]
    /\ RequestFrame

NextRequests ==
    \/ \E r \in Requests : LoadRows(r)
    \/ \E r \in Requests : LoadInsights(r)
    \/ \E r \in Requests : BuildFresh(r)
    \/ \E r \in Requests : ClearFileDependencies(r)
    \/ \E r \in Requests : UpsertFileDependencies(r)
    \/ \E r \in Requests : UpdateInsights(r)
    \/ \E r \in Requests : InsertInsights(r)

SpecRequests == InitRequests /\ [][NextRequests]_vars

\* The graphs that have been passed to save_to_cache
PassedToSave ==
    {procs[r].graph : r \in {q \in Requests :
         procs[q].pc \in {"clear", "upsert", "update_insights",
                          "insert_insights", "done"}
         /\ procs[q].graph # NoGraph}}

\* C28: whatever the interleaving of the requests, load_from_cache returns
\* None or a graph whose files and edges are those of one graph passed to
\* save_to_cache.
C28_LoadsOneSavedGraph ==
    procs # NoProcs =>
        \A r \in Requests :
            procs[r].ret \notin {NoLoad, LoadedNone} =>
                \E g \in PassedToSave :
                    /\ Keys(procs[r].ret.dependencies) = Keys(g.dependencies)
                    /\ EdgePairs(procs[r].ret) = EdgePairs(g)
====
